---------------------------- MODULE Spec2Model ----------------------------
(***************************************************************************)
(* A model of wuapi-essential (src/src/index.ts, with the helpers notNU    *)
(* and forIn of src/unnamed/part_000): the schema object model, its path   *)
(* resolution, field type equality, enumeration queries, inheritance       *)
(* walks, generic solving, loading and flattening.                         *)
(*                                                                         *)
(* JavaScript values are records, one shape per kind of value, so that any *)
(* two values can be compared:                                             *)
(*   Undefined, Null, a thrown error [throw |-> ...], a boolean            *)
(*   [bool |-> ...], a string [str |-> ...], a list [list |-> ...], and    *)
(*   objects carrying their class in cls.                                  *)
(* A string-keyed object ({[key: string]: T}, created as {}) is the        *)
(* sequence of its own properties [key, val] in for-in order; a read of a  *)
(* key it does not own falls through to Object.prototype.                  *)
(***************************************************************************)
EXTENDS Integers, Sequences, FiniteSets, TLC

VARIABLES op, args, project, pc, stack, ret, visited, result

vars == <<op, args, project, pc, stack, ret, visited, result>>

(***************************************************************************)
(* Values                                                                  *)
(***************************************************************************)
Undefined == [undef |-> TRUE]

Null == [null |-> TRUE]

\* The TypeError the runtime raises on a property read of undefined or on a
\* call of something that is no function.
TypeError == [throw |-> "TypeError"]

\* The RangeError the runtime raises when the call stack is exhausted.
RangeError == [throw |-> "RangeError"]

Bool(b) == [bool |-> b]

Str(s) == [str |-> s]

List(s) == [list |-> s]

\* A coordinate of an ElementPath that is null (module: string | null).
NullStr == "<null>"

\* No project was passed (project: $Project | null | undefined).
NoProject == [null |-> TRUE]

IsNullish(v) == v = Undefined \/ v = Null

IsThrow(v) == "throw" \in DOMAIN v

\* notNU(x) of one argument: neither null nor undefined.
notNU(v) == ~IsNullish(v)

(***************************************************************************)
(* String-keyed objects                                                    *)
(***************************************************************************)
\* Names every {} inherits from Object.prototype; "constructor" stands for
\* them (toString, valueOf, hasOwnProperty, __proto__ ... behave alike on a
\* read).
ProtoNames == {"constructor"}

\* What a read of an inherited name yields: a function object of the
\* runtime, neither null nor undefined, with no properties of the model's.
ProtoMember == [cls |-> "Function"]

Keys(o) == {o[i].key : i \in 1..Len(o)}

Own(o, k) == o[CHOOSE i \in 1..Len(o) : o[i].key = k].val

\* o[k]
Get(o, k) ==
  IF k \in Keys(o) THEN Own(o, k)
  ELSE IF k \in ProtoNames THEN ProtoMember
  ELSE Undefined

\* o[k] = v: an own key keeps its place, a new key goes last.
Put(o, k, v) ==
  IF k \in Keys(o)
  THEN [i \in 1..Len(o) |-> IF o[i].key = k THEN [key |-> k, val |-> v] ELSE o[i]]
  ELSE Append(o, [key |-> k, val |-> v])

\* x.name for a fixed property name of a class instance.
HasProp(x, name) == name \in DOMAIN x

\* const x = v; Body(x): v is evaluated once, before the body.
Const(v, Body(_)) == CHOOSE out \in {Body(x) : x \in {v}} : TRUE

(***************************************************************************)
(* ElementPath                                                             *)
(***************************************************************************)
ElementPath(m, n) == [module |-> m, name |-> n]

\* A variant of ElementPath.equals that compares the names alone.
PathEqualsNameOnly(self, another) == another.name = self.name

\* ElementPath.equals(another), another given.
PathEquals(self, another) ==
  another.module = self.module /\ another.name = self.name

\* project.modules[module]?.<coll>[name] ?? null, after the two guards.
Resolve(proj, path, coll) ==
  IF proj = NoProject THEN Null
  ELSE IF path.module = NullStr \/ path.name = NullStr THEN Null
  ELSE LET m == Get(proj.modules, path.module) IN
       IF IsNullish(m) THEN Null
       ELSE IF ~HasProp(m, coll) THEN TypeError
       ELSE LET e == Get(m[coll], path.name) IN
            IF IsNullish(e) THEN Null ELSE e

asEntityOf(path, proj) == Resolve(proj, path, "entities")

asEnumOf(path, proj) == Resolve(proj, path, "enums")

(***************************************************************************)
(* The object graph                                                        *)
(***************************************************************************)
\* new $Field(type); the flags and comment play no part in any query.
Field(type) == [cls |-> "Field", type |-> type]

\* An $Entity object; oid is the object's identity (which object it is).
Entity(oid, parent, fieldsLocal, genericMap) ==
  [cls |-> "Entity", oid |-> oid, parent |-> parent,
   fieldsLocal |-> fieldsLocal, genericMap |-> genericMap]

\* An $Enum object.
Enum(oid, enumMap) == [cls |-> "Enum", oid |-> oid, enumMap |-> enumMap]

\* A $Module object.
Module(entities, enums) ==
  [cls |-> "Module", entities |-> entities, enums |-> enums]

\* A $Project object.
Project(modules) == [cls |-> "Project", modules |-> modules]

\* The object whose own keys are those of the sequence ks that lie in S, in
\* the order of ks, each holding Val(k).
ObjOf(ks, S, Val(_)) ==
  LET sel == SelectSeq(ks, LAMBDA k : k \in S)
  IN  [i \in 1..Len(sel) |-> [key |-> sel[i], val |-> Val(sel[i])]]

(***************************************************************************)
(* Path resolution: asEntityOf and asEnumOf on a built project             *)
(***************************************************************************)
PathModuleNames == <<"m", "n">>

PathEntityNames == <<"A", "constructor">>

PathEnumNames == <<"A", "E">>

PathModule(m, es, us) ==
  Module(ObjOf(PathEntityNames, es, LAMBDA n : Entity(<<m, n>>, Null, <<>>, <<>>)),
         ObjOf(PathEnumNames, us, LAMBDA n : Enum(<<m, n>>, <<>>)))

PathModuleChoices(m) ==
  {PathModule(m, es, us) : es \in SUBSET {"A", "constructor"}, us \in SUBSET {"A", "E"}}

PathProjects ==
  {Project(ObjOf(PathModuleNames, ms, LAMBDA m : IF m = "m" THEN pm ELSE pn)) :
     ms \in SUBSET {"m", "n"}, pm \in PathModuleChoices("m"),
     pn \in {PathModule("n", {"A"}, {}), PathModule("n", {}, {"E"})}}

PathArgs ==
  {ElementPath(m, n) : m \in {"m", "n", "constructor", NullStr},
                       n \in {"A", "E", "constructor", NullStr}}

InitPath ==
  /\ op \in {"asEntityOf", "asEnumOf"}
  /\ project \in PathProjects \cup {NoProject}
  /\ args \in {[path |-> p] : p \in PathArgs}
  /\ pc = "call"
  /\ stack = <<>>
  /\ ret = Undefined
  /\ visited = <<>>
  /\ result = Undefined

Outcome(v) == IF IsThrow(v) THEN "error" ELSE "done"

AsEntityOf ==
  /\ pc = "call"
  /\ op = "asEntityOf"
  /\ result' = asEntityOf(args.path, project)
  /\ pc' = Outcome(result')
  /\ UNCHANGED <<op, args, project, stack, ret, visited>>

AsEnumOf ==
  /\ pc = "call"
  /\ op = "asEnumOf"
  /\ result' = asEnumOf(args.path, project)
  /\ pc' = Outcome(result')
  /\ UNCHANGED <<op, args, project, stack, ret, visited>>

NextPath == AsEntityOf \/ AsEnumOf

SpecPath == InitPath /\ [][NextPath]_vars

\* What the path's coordinate holds among the project's own modules and the
\* module's own entities or enums: the stored object, or null.
StoredAt(proj, path, coll) ==
  IF proj = NoProject \/ path.module = NullStr \/ path.name = NullStr THEN Null
  ELSE IF path.module \notin Keys(proj.modules) THEN Null
  ELSE IF path.name \notin Keys(Own(proj.modules, path.module)[coll]) THEN Null
  ELSE Own(Own(proj.modules, path.module)[coll], path.name)

\* C9: asEntityOf / asEnumOf return null when the project is absent, a
\* coordinate is null, the project has no such module or the module no such
\* entity (enum), and the stored entity (enum) otherwise; they never raise
\* an error and never change the project.
C9_ResolveIsTotalLookup ==
  [][ /\ (AsEntityOf => /\ result' = StoredAt(project, args.path, "entities")
                        /\ pc' = "done")
      /\ (AsEnumOf => /\ result' = StoredAt(project, args.path, "enums")
                      /\ pc' = "done")
      /\ project' = project ]_vars

(***************************************************************************)
(* FieldType                                                               *)
(***************************************************************************)
Plain(tag) == [type |-> tag]

TObject(path) == [type |-> "TObject", entity |-> path]

TEnum(path) == [type |-> "TEnum", enu |-> path]

TList(member) == [type |-> "TList", member |-> member]

TUnknown(name) == [type |-> "TUnknown", unknown |-> name]

\* A variant of equalsEvenInList that unwraps one list layer only.
equalsEvenInListOneLayer(self, another) ==
  IF self.type = "TList" THEN [throw |-> "List field shall not use quealsInList!"]
  ELSE IF ~notNU(another) THEN Bool(FALSE)
  ELSE IF another.type = "TList" THEN Bool(another.member.type = self.type)
  ELSE Bool(another = self)

RECURSIVE equals(_, _)
\* FieldType.equals(another)
equals(self, another) ==
  IF IsNullish(another) THEN FALSE
  ELSE IF another.type # self.type THEN FALSE
  ELSE CASE self.type = "TObject" -> PathEquals(self.entity, another.entity)
         [] self.type = "TEnum" -> PathEquals(self.enu, another.enu)
         [] self.type = "TUnknown" -> self.unknown = another.unknown
         [] self.type = "TList" -> equals(self.member, another.member)
         [] OTHER -> TRUE

\* The string equalsEvenInList throws on a list receiver.
UsageError == [throw |-> "List field shall not use quealsInList!"]

RECURSIVE equalsEvenInList(_, _)
\* FieldType.equalsEvenInList(another)
equalsEvenInList(self, another) ==
  IF self.type = "TList" THEN UsageError
  ELSE IF ~notNU(another) THEN Bool(FALSE)
  ELSE IF another.type = "TList" THEN equalsEvenInList(self, another.member)
  ELSE Bool(equals(self, another))

(***************************************************************************)
(* Entity: the inheritance walk and the generic solving                    *)
(***************************************************************************)
\* The call stack the runtime allows, in frames.
MaxStack == 4

\* A value used as a condition: undefined and null are false, objects true.
Truthy(v) == ~IsNullish(v)

RECURSIVE GenericLocalFrom(_, _)
\* The for-in loop of getGenericLocal from own property i on.
GenericLocalFrom(fields, i) ==
  IF i > Len(fields) THEN <<>>
  ELSE LET field == fields[i].val IN
       (IF field.type.type = "TUnknown" THEN <<field.type.unknown>> ELSE <<>>)
         \o GenericLocalFrom(fields, i + 1)

getGenericLocal(self) == GenericLocalFrom(self.fieldsLocal, 1)

\* pg.concat(this.getGenericLocal()).filter((o) => !this.genericMap[o])
SolveHere(self, pg) ==
  SelectSeq(pg \o getGenericLocal(self),
            LAMBDA o : ~Truthy(Get(self.genericMap, o)))

\* this.parent?.asEntityOf(project): undefined when there is no parent.
ParentTarget(self, proj) ==
  IF self.parent = Null THEN Undefined ELSE asEntityOf(self.parent, proj)

\* Whether x has the method: only an $Entity has fromAncestorToMe and
\* getGenericUnsolved.
HasMethod(x) == HasProp(x, "cls") /\ x.cls = "Entity"

Frame(self, at) == [self |-> self, at |-> at]

Top == stack[Len(stack)]

Pop == SubSeq(stack, 1, Len(stack) - 1)

SetTop(at) == [stack EXCEPT ![Len(stack)].at = at]

\* A throw unwinds every frame: nothing in the program catches.
Raise(err) ==
  /\ pc' = "error"
  /\ result' = err
  /\ stack' = <<>>

\* The recursive call target.method(project, ...) made from the top frame,
\* which resumes at `resume` when the call returns.
Recurse(target, resume) ==
  IF Len(stack) >= MaxStack
  THEN /\ pc' = "overflow"
       /\ result' = RangeError
       /\ stack' = <<>>
  ELSE /\ stack' = Append(SetTop(resume), Frame(target, "enter"))
       /\ UNCHANGED <<pc, result>>

\* A variant of the first line that calls block(this) before the parent's
\* walk as well.
FromAncestorEnterBlockFirst ==
  /\ pc = "run"
  /\ op = "fromAncestorToMe"
  /\ Top.at = "enter"
  /\ visited' = Append(visited, Top.self.oid)
  /\ LET target == ParentTarget(Top.self, project) IN
       IF IsThrow(target) THEN Raise(target)
       ELSE IF IsNullish(target)
         THEN stack' = SetTop("block") /\ UNCHANGED <<pc, result>>
       ELSE IF ~HasMethod(target) THEN Raise(TypeError)
       ELSE Recurse(target, "block")
  /\ UNCHANGED <<op, args, project, ret>>

\* fromAncestorToMe, its first line: the parent's own walk comes first.
FromAncestorEnter ==
  /\ pc = "run"
  /\ op = "fromAncestorToMe"
  /\ Top.at = "enter"
  /\ LET target == ParentTarget(Top.self, project) IN
       IF IsThrow(target) THEN Raise(target)
       ELSE IF IsNullish(target)
         THEN stack' = SetTop("block") /\ UNCHANGED <<pc, result>>
       ELSE IF ~HasMethod(target) THEN Raise(TypeError)
       ELSE Recurse(target, "block")
  /\ UNCHANGED <<op, args, project, ret, visited>>

\* fromAncestorToMe, its second line: block(this), then the return.
FromAncestorBlock ==
  /\ pc = "run"
  /\ op = "fromAncestorToMe"
  /\ Top.at = "block"
  /\ visited' = Append(visited, Top.self.oid)
  /\ stack' = Pop
  /\ pc' = IF Len(stack) = 1 THEN "done" ELSE "run"
  /\ UNCHANGED <<op, args, project, ret, result>>

\* A return of value v from the top frame to its caller.
Return(v) ==
  /\ stack' = Pop
  /\ ret' = v
  /\ IF Len(stack) = 1
     THEN pc' = "done" /\ result' = v
     ELSE UNCHANGED <<pc, result>>

\* getGenericUnsolved up to the evaluation of pg.
GenericEnter ==
  /\ pc = "run"
  /\ op = "getGenericUnsolved"
  /\ Top.at = "enter"
  /\ IF project = NoProject THEN Return(List(<<>>))
     ELSE LET target == ParentTarget(Top.self, project) IN
       IF IsThrow(target) THEN Raise(target) /\ UNCHANGED ret
       ELSE IF IsNullish(target)
         THEN /\ stack' = SetTop("filter")
              /\ ret' = List(<<>>)
              /\ UNCHANGED <<pc, result>>
       ELSE IF ~HasMethod(target) THEN Raise(TypeError) /\ UNCHANGED ret
       ELSE Recurse(target, "filter") /\ UNCHANGED ret
  /\ UNCHANGED <<op, args, project, visited>>

\* getGenericUnsolved from pg on: the concat, the filter and the return.
GenericFilter ==
  /\ pc = "run"
  /\ op = "getGenericUnsolved"
  /\ Top.at = "filter"
  /\ Return(List(SolveHere(Top.self, ret.list)))
  /\ UNCHANGED <<op, args, project, visited>>

(***************************************************************************)
(* The projects the walk and the solving run on: module "m" holding the    *)
(* entities A, B and C, each with a parent path (or none), local fields    *)
(* and a genericMap.                                                       *)
(***************************************************************************)
ChainNames == <<"A", "B", "C">>

ChainSet == {"A", "B", "C"}

ChainProject(par, fl, gm) ==
  Project(<<[key |-> "m",
             val |-> Module(ObjOf(ChainNames, ChainSet,
                                  LAMBDA n : Entity(<<"m", n>>, par[n], fl[n], gm[n])),
                            <<>>)]>>)

\* No parent, the three entities, a name the module lacks, a module the
\* project lacks, and the two coordinates that name an inherited property.
WalkParentChoices ==
  {Null, ElementPath("m", "A"), ElementPath("m", "B"), ElementPath("m", "C"),
   ElementPath("m", "Z"), ElementPath("x", "A"),
   ElementPath("constructor", "A"), ElementPath("m", "constructor")}

WalkProjects ==
  {ChainProject(par, [n \in ChainSet |-> <<>>], [n \in ChainSet |-> <<>>]) :
     par \in [ChainSet -> WalkParentChoices]}

GenericParents ==
  {[A |-> a, B |-> b, C |-> c] :
     a \in {Null, ElementPath("m", "B"), ElementPath("m", "Z"), ElementPath("m", "A")},
     b \in {Null, ElementPath("m", "C"), ElementPath("m", "A")},
     c \in {Null, ElementPath("m", "A")}}

FieldsChoices ==
  { <<>>,
    <<[key |-> "x", val |-> Field(TUnknown("T"))]>>,
    <<[key |-> "x", val |-> Field(TUnknown("T"))],
      [key |-> "y", val |-> Field(TUnknown("U"))]>>,
    <<[key |-> "x", val |-> Field(Plain("TInteger"))],
      [key |-> "y", val |-> Field(TUnknown("constructor"))]>> }

GenericMapChoices ==
  { <<>>, <<[key |-> "T", val |-> Field(Plain("TString"))]>> }

GenericProjects ==
  {ChainProject(par, fl, gm) :
     par \in GenericParents, fl \in [ChainSet -> FieldsChoices],
     gm \in [ChainSet -> GenericMapChoices]}

\* The entity objects of a chain project.
EntitiesOf(proj) ==
  {Own(Own(proj.modules, "m").entities, n) : n \in ChainSet}

InitChain ==
  /\ \/ /\ op = "fromAncestorToMe"
        /\ \E graph \in WalkProjects :
             /\ project = graph
             /\ \E self \in EntitiesOf(graph) : args = [self |-> self]
     \/ /\ op = "getGenericUnsolved"
        /\ \E graph \in GenericProjects :
             /\ project \in {graph, NoProject}
             /\ \E self \in EntitiesOf(graph) : args = [self |-> self]
  /\ stack = <<Frame(args.self, "enter")>>
  /\ pc = "run"
  /\ ret = Undefined
  /\ visited = <<>>
  /\ result = Undefined

NextChain ==
  \/ FromAncestorEnter
  \/ FromAncestorBlock
  \/ GenericEnter
  \/ GenericFilter

SpecChain == InitChain /\ [][NextChain]_vars

\* The calls are synchronous: a call that can take its next step takes it.
LiveChain == SpecChain /\ WF_vars(NextChain)

\* The chain projects with every shape of parent link and one fixed
\* assignment of fields and generic maps.
RecurseProjects ==
  {ChainProject(par,
                [A |-> <<[key |-> "x", val |-> Field(TUnknown("T"))]>>,
                 B |-> <<[key |-> "x", val |-> Field(TUnknown("U"))]>>,
                 C |-> <<>>],
                [A |-> <<>>, B |-> <<>>,
                 C |-> <<[key |-> "T", val |-> Field(Plain("TString"))]>>]) :
     par \in [ChainSet -> WalkParentChoices]}

InitRecurse ==
  /\ op \in {"fromAncestorToMe", "getGenericUnsolved"}
  /\ project \in RecurseProjects
  /\ \E self \in EntitiesOf(project) : args = [self |-> self]
  /\ stack = <<Frame(args.self, "enter")>>
  /\ pc = "run"
  /\ ret = Undefined
  /\ visited = <<>>
  /\ result = Undefined

LiveRecurse == InitRecurse /\ [][NextChain]_vars /\ WF_vars(NextChain)

(***************************************************************************)
(* The inheritance chain as the claims speak of it: an entity's parent is  *)
(* the entity stored at its parent path, if any.                           *)
(***************************************************************************)
ParentOf(e) ==
  IF e.parent = Null THEN Null ELSE StoredAt(project, e.parent, "entities")

RECURSIVE Lineage(_, _)
\* e preceded by its ancestors, eldest first, following at most n links.
Lineage(e, n) ==
  IF n = 0 \/ ParentOf(e) = Null THEN <<e>>
  ELSE Append(Lineage(ParentOf(e), n - 1), e)

\* Following as many links as there are entities meets an entity twice
\* exactly when the chain runs into a cycle.
Reached(e) == Lineage(e, Cardinality(ChainSet))

Acyclic(e) ==
  \A i, j \in 1..Len(Reached(e)) : i # j => Reached(e)[i].oid # Reached(e)[j].oid

Oids(l) == [i \in 1..Len(l) |-> l[i].oid]

Range(q) == {q[i] : i \in 1..Len(q)}

\* C1: on a chain of N resolved ancestors fromAncestorToMe invokes visit
\* N+1 times, once per entity of the chain, eldest ancestor first and the
\* entity itself last.
C1_VisitsChainEldestFirst ==
  (op = "fromAncestorToMe" /\ Acyclic(args.self) /\ pc # "run")
    => (pc = "done" /\ visited = Oids(Reached(args.self)))

IntroducesGeneric(e, n) ==
  \E i \in 1..Len(e.fieldsLocal) : e.fieldsLocal[i].val.type = TUnknown(n)

\* n is introduced at some level of the chain and bound by no genericMap
\* from that level down to the last.
UnsolvedOn(l, n) ==
  \E i \in 1..Len(l) :
     /\ IntroducesGeneric(l[i], n)
     /\ \A j \in i..Len(l) : n \notin Keys(l[j].genericMap)

GenericNames == {"T", "U", "constructor"}

\* C2: with a project supplied and an acyclic chain, a name occurs in
\* getGenericUnsolved exactly when some entity of the chain has a local
\* field typed TUnknown(name) and no genericMap from that entity down to
\* the receiver has the name as a key.
C2_UnsolvedIffIntroducedAndUnbound ==
  (op = "getGenericUnsolved" /\ project # NoProject /\ Acyclic(args.self)
     /\ pc # "run")
    => /\ pc = "done"
       /\ \A n \in GenericNames :
            n \in Range(result.list) <=> UnsolvedOn(Reached(args.self), n)

\* C10: the walk and the solving terminate when the chain of resolved
\* parents never meets an entity twice, and otherwise recurse for as long
\* as the stack lasts, with no visit made and no result returned.
C10_TerminatesExactlyWhenAcyclic ==
  /\ [](Acyclic(args.self) => pc # "overflow")
  /\ (Acyclic(args.self) ~> pc \in {"done", "error"})
  /\ [](~Acyclic(args.self) => /\ pc \in {"run", "overflow"}
                               /\ visited = <<>>
                               /\ result \in {Undefined, RangeError})
  /\ (~Acyclic(args.self) ~> pc = "overflow")

C10_CycleExhaustsStack ==
  ~Acyclic(args.self) /\ pc = "overflow" /\ op = "getGenericUnsolved"

(***************************************************************************)
(* Field type equality on pairs of field types                             *)
(***************************************************************************)
\* The deepest nesting of TList in the field types compared.
MaxNest == 2

PlainTags ==
  {"TInteger", "TLong", "TDouble", "TID", "TURL", "TDateTime", "TBoolean",
   "TString", "TSSMap"}

TypePaths ==
  {ElementPath("m", "A"), ElementPath("m", "B"), ElementPath("n", "A"),
   ElementPath(NullStr, NullStr)}

BaseTypes ==
  {Plain(t) : t \in PlainTags}
    \cup {TObject(p) : p \in TypePaths}
    \cup {TEnum(p) : p \in TypePaths}
    \cup {TUnknown(n) : n \in {"T", "U"}}

RECURSIVE TypesUpTo(_)
TypesUpTo(d) ==
  IF d = 0 THEN BaseTypes
  ELSE TypesUpTo(d - 1) \cup {TList(t) : t \in TypesUpTo(d - 1)}

FieldTypes == TypesUpTo(MaxNest)

InitEquals ==
  /\ op \in {"equals", "equalsEvenInList"}
  /\ args \in {[self |-> a, another |-> b] :
                 a \in FieldTypes, b \in FieldTypes \cup {Null, Undefined}}
  /\ project = NoProject
  /\ pc = "call"
  /\ stack = <<>>
  /\ ret = Undefined
  /\ visited = <<>>
  /\ result = Undefined

Equals ==
  /\ pc = "call"
  /\ op = "equals"
  /\ result' = Bool(equals(args.self, args.another))
  /\ pc' = "done"
  /\ UNCHANGED <<op, args, project, stack, ret, visited>>

EqualsEvenInList ==
  /\ pc = "call"
  /\ op = "equalsEvenInList"
  /\ result' = equalsEvenInList(args.self, args.another)
  /\ pc' = Outcome(result')
  /\ UNCHANGED <<op, args, project, stack, ret, visited>>

NextEquals == Equals \/ EqualsEvenInList

SpecEquals == InitEquals /\ [][NextEquals]_vars

\* C4: A.equals(B) is true exactly when A and B have the same tag and, for
\* the payload variants, equal payloads (paths equal on module and name,
\* list members equal to any depth, parameter names equal).
C4_EqualsIsStructural ==
  (op = "equals" /\ pc # "call" /\ args.another \in FieldTypes)
    => (pc = "done" /\ result = Bool(args.self = args.another))

C4_NestedListsCompared ==
  /\ op = "equals" /\ pc = "done"
  /\ args.self.type = "TList" /\ args.self.member.type = "TList"
  /\ args.self.member.member.type = "TObject"
  /\ result = Bool(TRUE)

RECURSIVE Unwrapped(_)
\* The non-list type under the TList layers of t.
Unwrapped(t) == IF t.type = "TList" THEN Unwrapped(t.member) ELSE t

\* C5: on a non-list receiver R, equalsEvenInList of a type X under any
\* number of TList layers returns R.equals(X); on a TList receiver it
\* raises the usage error for every argument, null included.
C5_UnwrapsCandidateOrThrows ==
  (op = "equalsEvenInList" /\ pc # "call")
    => IF args.self.type = "TList"
       THEN pc = "error" /\ result = UsageError
       ELSE args.another \in FieldTypes
              => /\ pc = "done"
                 /\ result = Bool(equals(args.self, Unwrapped(args.another)))

C5_IntegerInListOfLists ==
  /\ op = "equalsEvenInList" /\ pc = "done"
  /\ args.self = Plain("TInteger")
  /\ args.another = TList(TList(Plain("TInteger")))
  /\ result = Bool(TRUE)

(***************************************************************************)
(* Enum: firstName and first                                               *)
(***************************************************************************)
\* new $EnumItem(value)
EnumItem(value) == [cls |-> "EnumItem", value |-> value]

RECURSIVE FirstNameLoopOrEqual(_, _, _, _)
\* A variant of the loop that also takes an item of equal value.
FirstNameLoopOrEqual(enumMap, n, i, k) ==
  IF n > Len(enumMap) THEN k
  ELSE LET item == enumMap[n].val IN
       IF i = <<>> \/ item.value <= i[1]
       THEN FirstNameLoopOrEqual(enumMap, n + 1, <<item.value>>, Str(enumMap[n].key))
       ELSE FirstNameLoopOrEqual(enumMap, n + 1, i, k)

RECURSIVE FirstNameLoop(_, _, _, _)
\* The for-in loop of firstName from own property n on; i is <<>> while
\* null and <<value>> once set, k the key kept so far.
FirstNameLoop(enumMap, n, i, k) ==
  IF n > Len(enumMap) THEN k
  ELSE LET item == enumMap[n].val IN
       IF i = <<>> \/ item.value < i[1]
       THEN FirstNameLoop(enumMap, n + 1, <<item.value>>, Str(enumMap[n].key))
       ELSE FirstNameLoop(enumMap, n + 1, i, k)

\* Enum.firstName()
firstName(self) == FirstNameLoop(self.enumMap, 1, <<>>, Null)

\* Enum.first()
first(self) ==
  LET k == firstName(self) IN
  IF k = Null THEN Null ELSE Get(self.enumMap, k.str)

\* The most items an enumeration holds, and the largest item value.
MaxItems == 3

MaxValue == 2

EnumKeys == {"a", "b", "c", "d"}

\* Every enumMap of at most MaxItems items under distinct keys, in every
\* scan order.
EnumMaps ==
  UNION {{m \in [1..n -> [key : EnumKeys, val : {EnumItem(v) : v \in 0..MaxValue}]] :
            \A i, j \in 1..n : i # j => m[i].key # m[j].key} :
         n \in 0..MaxItems}

InitEnum ==
  /\ op \in {"firstName", "first"}
  /\ args \in {[self |-> Enum(<<"m", "E">>, m)] : m \in EnumMaps}
  /\ project = NoProject
  /\ pc = "call"
  /\ stack = <<>>
  /\ ret = Undefined
  /\ visited = <<>>
  /\ result = Undefined

FirstName ==
  /\ pc = "call"
  /\ op = "firstName"
  /\ result' = firstName(args.self)
  /\ pc' = "done"
  /\ UNCHANGED <<op, args, project, stack, ret, visited>>

First ==
  /\ pc = "call"
  /\ op = "first"
  /\ result' = first(args.self)
  /\ pc' = "done"
  /\ UNCHANGED <<op, args, project, stack, ret, visited>>

NextEnum == FirstName \/ First

SpecEnum == InitEnum /\ [][NextEnum]_vars

\* The positions of the scan that hold the minimum value.
MinAt(enumMap) ==
  {i \in 1..Len(enumMap) :
     \A j \in 1..Len(enumMap) : enumMap[i].val.value <= enumMap[j].val.value}

Least(S) == CHOOSE i \in S : \A j \in S : i <= j

Greatest(S) == CHOOSE i \in S : \A j \in S : i >= j

\* C7 as stated: firstName returns null exactly when there are no items,
\* and otherwise the key of the minimum-valued item visited last in the
\* scan.
C7_TieGoesToLastVisited ==
  (op = "firstName" /\ pc = "done")
    => LET enumMap == args.self.enumMap IN
       /\ result = Null <=> Len(enumMap) = 0
       /\ Len(enumMap) > 0 => result = Str(enumMap[Greatest(MinAt(enumMap))].key)

\* C7 amended: firstName returns null exactly when there are no items, and
\* otherwise the key of the minimum-valued item visited first in the scan.
C7_TieGoesToFirstVisited ==
  (op = "firstName" /\ pc = "done")
    => LET enumMap == args.self.enumMap IN
       /\ result = Null <=> Len(enumMap) = 0
       /\ Len(enumMap) > 0 => result = Str(enumMap[Least(MinAt(enumMap))].key)

C7_TieScanned ==
  /\ op = "firstName" /\ pc = "done"
  /\ Cardinality(MinAt(args.self.enumMap)) = 2
  /\ Len(args.self.enumMap) = 3
  /\ result = Str(args.self.enumMap[2].key)

(***************************************************************************)
(* Loading from an untyped document                                        *)
(*                                                                         *)
(* A document node read by fixed property names is a record of the         *)
(* properties it has; a mapping that a loader iterates is [dict |-> its    *)
(* entries in for-in order]; a scalar is Str, Bool or Num; null is Null.   *)
(***************************************************************************)
Num(n) == [num |-> n]

Dict(entries) == [dict |-> entries]

\* data.name for data that is neither null nor undefined.
Prop(data, name) == IF name \in DOMAIN data THEN data[name] ELSE Undefined

\* The properties a for-in loop over v enumerates.
Entries(v) == IF "dict" \in DOMAIN v THEN v.dict ELSE <<>>

\* data.module ?? null, as a coordinate.
Coord(v) == IF IsNullish(v) THEN NullStr ELSE v.str

\* ElementPath.load(data)
ElementPathLoad(data) ==
  ElementPath(Coord(Prop(data, "module")), Coord(Prop(data, "name")))

RECURSIVE FieldTypeLoad(_)
\* FieldType.load(data)
FieldTypeLoad(data) ==
  LET tag == Prop(data, "type") IN
  IF ~notNU(tag) THEN Null
  ELSE IF tag \in {Str(t) : t \in PlainTags} THEN Plain(tag.str)
  ELSE IF tag = Str("TObject")
    THEN IF ~notNU(Prop(data, "entity")) THEN Null
         ELSE TObject(ElementPathLoad(data.entity))
  ELSE IF tag = Str("TEnum")
    THEN IF ~notNU(Prop(data, "enu")) THEN Null
         ELSE TEnum(ElementPathLoad(data.enu))
  ELSE IF tag = Str("TList")
    THEN IF ~notNU(Prop(data, "member")) THEN Null
         ELSE Const(FieldTypeLoad(data.member), LAMBDA member :
                IF ~notNU(member) THEN Null ELSE TList(member))
  ELSE IF tag = Str("TUnknown")
    THEN IF ~notNU(Prop(data, "unknown")) THEN Null
         ELSE TUnknown(data.unknown.str)
  ELSE Null

\* Field.load(data); a read of data.type throws when data is null.
FieldLoad(data) ==
  IF IsNullish(data) THEN TypeError
  ELSE IF ~(/\ notNU(Prop(data, "type"))
            /\ notNU(Prop(data, "isOptional"))
            /\ notNU(Prop(data, "isPathParameter"))) THEN Null
  ELSE Const(FieldTypeLoad(data.type), LAMBDA filedType :
         IF ~notNU(filedType) THEN Null ELSE Field(filedType))

RECURSIVE LoadFieldsFrom(_, _, _)
\* The loop of Entity.load over fieldsLocal (and over genericMap) from
\* entry n on: [obj |-> the mapping filled], or the error thrown.
LoadFieldsFrom(entries, n, acc) ==
  IF n > Len(entries) THEN [obj |-> acc]
  ELSE Const(FieldLoad(entries[n].val), LAMBDA field :
         IF IsThrow(field) THEN field
         ELSE Const(IF notNU(field) THEN Put(acc, entries[n].key, field) ELSE acc,
                    LAMBDA filled : LoadFieldsFrom(entries, n + 1, filled)))

\* Entity.load(data); oid names the object that new $Entity creates.
EntityLoad(data, oid) ==
  IF IsNullish(data) THEN TypeError
  ELSE IF ~(/\ notNU(Prop(data, "type"))
            /\ notNU(Prop(data, "isAbstract"))
            /\ notNU(Prop(data, "fieldsLocal"))
            /\ notNU(Prop(data, "genericMap"))) THEN Null
  ELSE LET parent == IF notNU(Prop(data, "parent"))
                     THEN ElementPathLoad(data.parent) ELSE Null
       IN  Const(LoadFieldsFrom(Entries(data.fieldsLocal), 1, <<>>), LAMBDA fieldsLocal :
             IF IsThrow(fieldsLocal) THEN fieldsLocal
             ELSE Const(LoadFieldsFrom(Entries(data.genericMap), 1, <<>>), LAMBDA genericMap :
                    IF IsThrow(genericMap) THEN genericMap
                    ELSE Entity(oid, parent, fieldsLocal.obj, genericMap.obj)))

\* EnumItem.load(data)
EnumItemLoad(data) ==
  IF IsNullish(data) THEN TypeError
  ELSE IF ~notNU(Prop(data, "value")) THEN Null
  ELSE EnumItem(data.value.num)

RECURSIVE LoadItemsFrom(_, _, _)
\* The loop of Enum.load over enumMap.
LoadItemsFrom(entries, n, acc) ==
  IF n > Len(entries) THEN [obj |-> acc]
  ELSE Const(EnumItemLoad(entries[n].val), LAMBDA item :
         IF IsThrow(item) THEN item
         ELSE Const(IF notNU(item) THEN Put(acc, entries[n].key, item) ELSE acc,
                    LAMBDA filled : LoadItemsFrom(entries, n + 1, filled)))

\* Enum.load(data)
EnumLoad(data, oid) ==
  IF IsNullish(data) THEN TypeError
  ELSE IF ~notNU(Prop(data, "enumMap")) THEN Null
  ELSE Const(LoadItemsFrom(Entries(data.enumMap), 1, <<>>), LAMBDA enumMap :
         IF IsThrow(enumMap) THEN enumMap ELSE Enum(oid, enumMap.obj))

RECURSIVE LoadEntitiesFrom(_, _, _, _)
\* The first loop of Module.load, for the module stored under name m.
LoadEntitiesFrom(entries, n, acc, m) ==
  IF n > Len(entries) THEN [obj |-> acc]
  ELSE Const(EntityLoad(entries[n].val, <<m, entries[n].key>>), LAMBDA entity :
         IF IsThrow(entity) THEN entity
         ELSE Const(IF notNU(entity) THEN Put(acc, entries[n].key, entity) ELSE acc,
                    LAMBDA filled : LoadEntitiesFrom(entries, n + 1, filled, m)))

RECURSIVE LoadEnumsFrom(_, _, _, _)
\* The second loop of Module.load.
LoadEnumsFrom(entries, n, acc, m) ==
  IF n > Len(entries) THEN [obj |-> acc]
  ELSE Const(EnumLoad(entries[n].val, <<m, entries[n].key>>), LAMBDA enu :
         IF IsThrow(enu) THEN enu
         ELSE Const(IF notNU(enu) THEN Put(acc, entries[n].key, enu) ELSE acc,
                    LAMBDA filled : LoadEnumsFrom(entries, n + 1, filled, m)))

\* Module.load(data); m is the key the caller stores the module under and
\* only names the objects created.
ModuleLoad(data, m) ==
  IF IsNullish(data) THEN TypeError
  ELSE IF ~(notNU(Prop(data, "entities")) /\ notNU(Prop(data, "enums"))) THEN Null
  ELSE Const(LoadEntitiesFrom(Entries(data.entities), 1, <<>>, m), LAMBDA entities :
         IF IsThrow(entities) THEN entities
         ELSE Const(LoadEnumsFrom(Entries(data.enums), 1, <<>>, m), LAMBDA enums :
                IF IsThrow(enums) THEN enums
                ELSE Module(entities.obj, enums.obj)))

RECURSIVE LoadModulesFrom(_, _, _)
\* The loop of Project.load over modules.
LoadModulesFrom(entries, n, acc) ==
  IF n > Len(entries) THEN [obj |-> acc]
  ELSE Const(ModuleLoad(entries[n].val, entries[n].key), LAMBDA module :
         IF IsThrow(module) THEN module
         ELSE Const(IF notNU(module) THEN Put(acc, entries[n].key, module) ELSE acc,
                    LAMBDA filled : LoadModulesFrom(entries, n + 1, filled)))

\* A variant of Project.load that asks for the modules mapping alone.
ProjectLoadModulesOnly(data) ==
  IF IsNullish(data) THEN TypeError
  ELSE IF ~notNU(Prop(data, "modules")) THEN Null
  ELSE Const(LoadModulesFrom(Entries(data.modules), 1, <<>>), LAMBDA modules :
         IF IsThrow(modules) THEN modules ELSE Project(modules.obj))

\* Project.load(data)
ProjectLoad(data) ==
  IF IsNullish(data) THEN TypeError
  ELSE IF ~(/\ notNU(Prop(data, "name"))
            /\ notNU(Prop(data, "version"))
            /\ notNU(Prop(data, "targetPackage"))
            /\ notNU(Prop(data, "modules"))) THEN Null
  ELSE Const(LoadModulesFrom(Entries(data.modules), 1, <<>>), LAMBDA modules :
         IF IsThrow(modules) THEN modules ELSE Project(modules.obj))

(***************************************************************************)
(* Flattening                                                              *)
(***************************************************************************)
\* The inner forIn of flatEntities for one module.
EntityPairs(module, moduleInstance) ==
  [i \in 1..Len(moduleInstance.entities) |->
     [path |-> ElementPath(module, moduleInstance.entities[i].key),
      entity |-> moduleInstance.entities[i].val]]

\* The inner forIn of flatEnums for one module.
EnumPairs(module, moduleInstance) ==
  [i \in 1..Len(moduleInstance.enums) |->
     [path |-> ElementPath(module, moduleInstance.enums[i].key),
      enu |-> moduleInstance.enums[i].val]]

RECURSIVE FlatEntitiesFrom(_, _)
FlatEntitiesFrom(modules, n) ==
  IF n > Len(modules) THEN <<>>
  ELSE EntityPairs(modules[n].key, modules[n].val) \o FlatEntitiesFrom(modules, n + 1)

RECURSIVE FlatEnumsFrom(_, _)
FlatEnumsFrom(modules, n) ==
  IF n > Len(modules) THEN <<>>
  ELSE EnumPairs(modules[n].key, modules[n].val) \o FlatEnumsFrom(modules, n + 1)

\* A variant of flatEntities that leaves the outer loop after one module.
flatEntitiesFirstModule(self) ==
  IF Len(self.modules) = 0 THEN <<>>
  ELSE EntityPairs(self.modules[1].key, self.modules[1].val)

\* Project.flatEntities()
flatEntities(self) == FlatEntitiesFrom(self.modules, 1)

\* Project.flatEnums()
flatEnums(self) == FlatEnumsFrom(self.modules, 1)

(***************************************************************************)
(* The documents loaded                                                    *)
(***************************************************************************)
\* The mappings with keys among those of the sequence ks, in that order,
\* and values in V.
DictsOver(ks, V) ==
  UNION {{Dict(ObjOf(ks, S, LAMBDA k : f[k])) : f \in [S -> V]} :
         S \in SUBSET Range(ks)}

TypeDocs ==
  { [type |-> Str("TInteger")],
    [type |-> Str("TUnknown"), unknown |-> Str("T")],
    [type |-> Str("TList"), member |-> [type |-> Str("TString")]],
    [type |-> Str("TList")],
    [type |-> Str("TFloat")] }

\* Field entries: complete ones, one without isOptional, one whose
\* isPathParameter is null, and a null entry.
FieldDocs ==
  {[type |-> t, isOptional |-> Bool(FALSE), isPathParameter |-> Bool(FALSE)] :
     t \in TypeDocs}
    \cup {[type |-> [type |-> Str("TInteger")], isPathParameter |-> Bool(FALSE)],
          [type |-> [type |-> Str("TInteger")], isOptional |-> Bool(TRUE),
           isPathParameter |-> Null],
          Null}

\* Entity documents for Entity.load alone.
EntityDocs ==
  {[type |-> Num(0), isAbstract |-> Bool(FALSE), fieldsLocal |-> fl, genericMap |-> gm] :
     fl \in DictsOver(<<"f", "g">>, FieldDocs),
     gm \in DictsOver(<<"T">>, {[type |-> [type |-> Str("TString")],
                                isOptional |-> Bool(FALSE),
                                isPathParameter |-> Bool(FALSE)],
                               [isOptional |-> Bool(FALSE)]})}
    \cup {[type |-> Num(0), isAbstract |-> Bool(FALSE), fieldsLocal |-> Dict(<<>>)],
          [type |-> Num(0), isAbstract |-> Null, fieldsLocal |-> Dict(<<>>),
           genericMap |-> Dict(<<>>)],
          [type |-> Num(1), isAbstract |-> Bool(TRUE), fieldsLocal |-> Dict(<<>>),
           genericMap |-> Dict(<<>>),
           parent |-> [module |-> Str("m"), name |-> Str("A")]]}

\* The entity document of the scenario: no fields, no generics.
BareEntityDoc ==
  [type |-> Num(0), isAbstract |-> Bool(FALSE), fieldsLocal |-> Dict(<<>>),
   genericMap |-> Dict(<<>>)]

ProjectEntityDocs ==
  { BareEntityDoc,
    [type |-> Num(1), isAbstract |-> Bool(TRUE),
     fieldsLocal |->
       Dict(<<[key |-> "f",
               val |-> [type |-> [type |-> Str("TInteger")],
                        isPathParameter |-> Bool(FALSE)]]>>),
     genericMap |-> Dict(<<>>)],
    [type |-> Num(0), isAbstract |-> Bool(FALSE), fieldsLocal |-> Dict(<<>>)] }

ProjectEnumDocs ==
  { [enumMap |-> Dict(<<[key |-> "a", val |-> [value |-> Num(1)]],
                        [key |-> "b", val |-> [comment |-> Str("no value")]]>>)],
    [comment |-> Str("no enumMap")] }

\* Module documents: complete ones, ones holding entities alone, and a
\* null entry.
ModuleDocs ==
  {[entities |-> es, enums |-> us] :
     es \in DictsOver(<<"A", "B">>, ProjectEntityDocs),
     us \in DictsOver(<<"A", "E">>, ProjectEnumDocs)}
    \cup {[entities |-> es] : es \in DictsOver(<<"A">>, {BareEntityDoc})}
    \cup {Null}

SecondModuleDocs ==
  { [entities |-> Dict(<<[key |-> "A", val |-> BareEntityDoc]>>),
     enums |-> Dict(<<>>)],
    [entities |-> Dict(<<>>),
     enums |-> Dict(<<[key |-> "E", val |-> [enumMap |-> Dict(<<>>)]]>>)],
    [enums |-> Dict(<<>>)] }

ModulesDocs ==
  {Dict(ObjOf(<<"m", "n">>, S, LAMBDA k : IF k = "m" THEN dm ELSE dn)) :
     S \in SUBSET {"m", "n"}, dm \in ModuleDocs, dn \in SecondModuleDocs}

ProjectDocs ==
  {[name |-> Str("p"), version |-> Str("1"), targetPackage |-> Str("pkg"),
    modules |-> ms] : ms \in ModulesDocs}
    \cup {[modules |-> ms] : ms \in ModulesDocs}
    \cup {[name |-> Str("p"), version |-> Null, targetPackage |-> Str("pkg"),
           modules |-> Dict(<<>>)]}

InitLoad ==
  /\ \/ op = "Project.load" /\ args \in {[data |-> d] : d \in ProjectDocs}
     \/ op = "Entity.load" /\ args \in {[data |-> d] : d \in EntityDocs}
  /\ project = NoProject
  /\ pc = "call"
  /\ stack = <<>>
  /\ ret = Undefined
  /\ visited = <<>>
  /\ result = Undefined

\* const project = Project.load(data): a project, null, or a throw.
LoadProject ==
  /\ pc = "call"
  /\ op = "Project.load"
  /\ result' = ProjectLoad(args.data)
  /\ pc' = IF IsThrow(result') THEN "error"
           ELSE IF result' = Null THEN "rejected" ELSE "loaded"
  /\ project' = IF pc' = "loaded" THEN result' ELSE NoProject
  /\ UNCHANGED <<op, args, stack, ret, visited>>

\* project.flatEntities() on the loaded project.
FlatEntities ==
  /\ pc = "loaded"
  /\ result' = List(flatEntities(project))
  /\ ret' = Str("flatEntities")
  /\ pc' = "done"
  /\ UNCHANGED <<op, args, project, stack, visited>>

\* project.flatEnums() on the loaded project.
FlatEnums ==
  /\ pc = "loaded"
  /\ result' = List(flatEnums(project))
  /\ ret' = Str("flatEnums")
  /\ pc' = "done"
  /\ UNCHANGED <<op, args, project, stack, visited>>

\* Entity.load(data)
LoadEntity ==
  /\ pc = "call"
  /\ op = "Entity.load"
  /\ result' = EntityLoad(args.data, <<"m", "A">>)
  /\ pc' = IF IsThrow(result') THEN "error"
           ELSE IF result' = Null THEN "rejected" ELSE "done"
  /\ UNCHANGED <<op, args, project, stack, ret, visited>>

NextLoad == LoadProject \/ FlatEntities \/ FlatEnums \/ LoadEntity

SpecLoad == InitLoad /\ [][NextLoad]_vars

(***************************************************************************)
(* Documents as the claims speak of them                                   *)
(***************************************************************************)
\* d is an object that has each of the properties props.
HasAll(d, props) == ~IsNullish(d) /\ \A q \in props : notNU(Prop(d, q))

Vals(v) == {Entries(v)[i].val : i \in 1..Len(Entries(v))}

EntityDocOk(d) ==
  /\ HasAll(d, {"type", "isAbstract", "fieldsLocal", "genericMap"})
  /\ \A f \in Vals(d.fieldsLocal) \cup Vals(d.genericMap) : ~IsNullish(f)

EnumDocOk(d) ==
  /\ HasAll(d, {"enumMap"})
  /\ \A item \in Vals(d.enumMap) : ~IsNullish(item)

ModuleDocOk(d) ==
  /\ HasAll(d, {"entities", "enums"})
  /\ \A e \in Vals(d.entities) : EntityDocOk(e)
  /\ \A u \in Vals(d.enums) : EnumDocOk(u)

\* A well-formed document: the project, every module, every entity and
\* every enum is an object with its required properties, and every field
\* and item entry is an object.
WellFormed(d) ==
  /\ HasAll(d, {"name", "version", "targetPackage", "modules"})
  /\ \A m \in Vals(d.modules) : ModuleDocOk(m)

\* The (module, name) coordinates of the document's entities or enums.
DocCoordinates(d, coll) ==
  UNION {{ElementPath(Entries(d.modules)[i].key, Entries(Entries(d.modules)[i].val[coll])[j].key) :
            j \in 1..Len(Entries(Entries(d.modules)[i].val[coll]))} :
         i \in 1..Len(Entries(d.modules))}

PairNode(pair) == IF "entity" \in DOMAIN pair THEN pair.entity ELSE pair.enu

Flattened == IF ret = Str("flatEntities") THEN "entities" ELSE "enums"

ScenarioDoc ==
  [modules |->
     Dict(<<[key |-> "m",
             val |-> [entities |-> Dict(<<[key |-> "A", val |-> BareEntityDoc]>>)]]>>)]

CompletedScenarioDoc ==
  [name |-> Str("p"), version |-> Str("1"), targetPackage |-> Str("pkg"),
   modules |->
     Dict(<<[key |-> "m",
             val |-> [entities |-> Dict(<<[key |-> "A", val |-> BareEntityDoc]>>),
                      enums |-> Dict(<<>>)]]>>)]

OnePairAtMA ==
  (pc = "done" /\ ret = Str("flatEntities"))
    => /\ Len(result.list) = 1
       /\ result.list[1].path = ElementPath("m", "A")

\* C6 as stated: the scenario document, holding a modules mapping alone
\* with module m holding entities alone, loads to a project whose
\* flatEntities is one pair with path (m, A).
C6_ScenarioLoads ==
  (op = "Project.load" /\ args.data = ScenarioDoc /\ pc # "call")
    => (pc \in {"loaded", "done"} /\ OnePairAtMA)

\* C6 amended: Project.load returns null for the scenario document; with
\* name, version and targetPackage added at top level and an enums mapping
\* added to module m it returns a project whose flatEntities is one pair
\* with path (m, A).
C6_ScenarioNeedsRequiredProperties ==
  /\ (op = "Project.load" /\ args.data = ScenarioDoc /\ pc # "call")
       => (pc = "rejected" /\ result = Null)
  /\ (op = "Project.load" /\ args.data = CompletedScenarioDoc /\ pc # "call")
       => (pc \in {"loaded", "done"} /\ OnePairAtMA)

C6_CompletedScenarioFlattened ==
  /\ op = "Project.load" /\ args.data = CompletedScenarioDoc
  /\ pc = "done" /\ ret = Str("flatEntities")
  /\ Len(result.list) = 1

\* The entry has type, isOptional and isPathParameter and a loadable type.
LoadsAsField(d) ==
  /\ HasAll(d, {"type", "isOptional", "isPathParameter"})
  /\ FieldTypeLoad(d.type) # Null

\* C8: Entity.load of a document that has type, isAbstract, fieldsLocal and
\* genericMap returns an entity whose fieldsLocal keys are exactly the
\* document's fieldsLocal keys whose entry loads as a Field.
C8_EntityKeepsLoadableFields ==
  (/\ op = "Entity.load"
   /\ HasAll(args.data, {"type", "isAbstract", "fieldsLocal", "genericMap"})
   /\ pc # "call")
    => /\ pc = "done"
       /\ Keys(result.fieldsLocal)
            = {e.key : e \in {x \in Range(Entries(args.data.fieldsLocal)) :
                                LoadsAsField(x.val)}}

=============================================================================
